---- MODULE Spec2Model ----
\* Interval / IntervalSet of ts-math-utils: Interval from src/unnamed/part_004,
\* IntervalSet from src/dist/intervalSet.js lines 1-287.
\*
\* Numbers are integers 0..MaxValue.  Strings are sequences of one-character
\* strings, so that toString / validIntervalString / toInterval are computed
\* character by character as the code does.  An operation that can throw
\* returns a record with an err field; NoError means it returned normally.
EXTENDS Integers, Sequences, FiniteSets

VARIABLES iv, out, list, merged, intervals, mergeAddedInterval, ret

vars == <<iv, out, list, merged, intervals, mergeAddedInterval, ret>>

\* ---------------------------------------------------------------- bounds
MaxValue == 2

MaxLen == 3

MaxIntervals == 2

Values == 0..MaxValue

\* ---------------------------------------------------------------- errors
NoError == "none"

InvalidInterval == "Invalid interval. Cannot exclude either minimum and maximum values if they are equal."

InvalidIntervalString == "Invalid interval string."

\* no call made yet, or its outcome dropped: the value of out and of ret then
NoCall == [op |-> "none", arg |-> <<>>, before |-> <<>>, err |-> NoError, res |-> <<>>]

NothingReturned ==
    [op |-> "none", arg |-> <<>>, err |-> NoError, res |-> <<>>, before |-> <<>>, flag |-> FALSE]

\* ---------------------------------------------------------------- strings
Digits == <<"0", "1", "2", "3", "4", "5", "6", "7", "8", "9">>

RECURSIVE NatToString(_)
NatToString(n) ==
    IF n < 10 THEN <<Digits[n + 1]>>
    ELSE NatToString(n \div 10) \o <<Digits[(n % 10) + 1]>>

\* `${number}` of a template literal
NumberToString(n) ==
    IF n < 0 THEN <<"-">> \o NatToString(0 - n) ELSE NatToString(n)

IsDigit(c) == \E d \in 1..10 : Digits[d] = c

DigitValue(c) == (CHOOSE d \in 1..10 : Digits[d] = c) - 1

RECURSIVE DigitsValue(_)
DigitsValue(s) ==
    IF s = <<>> THEN 0
    ELSE 10 * DigitsValue(SubSeq(s, 1, Len(s) - 1)) + DigitValue(s[Len(s)])

AllDigits(s) == s # <<>> /\ \A k \in 1..Len(s) : IsDigit(s[k])

RECURSIVE TrimStart(_)
TrimStart(s) ==
    IF s # <<>> /\ s[1] = " " THEN TrimStart(Tail(s)) ELSE s

RECURSIVE TrimEnd(_)
TrimEnd(s) ==
    IF s # <<>> /\ s[Len(s)] = " " THEN TrimEnd(SubSeq(s, 1, Len(s) - 1)) ELSE s

\* String.prototype.trim
Trim(s) == TrimEnd(TrimStart(s))

\* String.prototype.split(',')
RECURSIVE Split(_)
Split(s) ==
    IF \E k \in 1..Len(s) : s[k] = ","
    THEN LET k == CHOOSE j \in 1..Len(s) : s[j] = "," /\ \A h \in 1..(j - 1) : s[h] # ","
         IN  <<SubSeq(s, 1, k - 1)>> \o Split(SubSeq(s, k + 1, Len(s)))
    ELSE <<s>>

\* String.prototype.substring(start, end), indices clamped to 0..length
Substring(s, start, end) ==
    LET clamp(k) == IF k < 0 THEN 0 ELSE IF k > Len(s) THEN Len(s) ELSE k
        lo == IF clamp(start) < clamp(end) THEN clamp(start) ELSE clamp(end)
        hi == IF clamp(start) < clamp(end) THEN clamp(end) ELSE clamp(start)
    IN  SubSeq(s, lo + 1, hi)

StartsWith(s, c) == s # <<>> /\ s[1] = c

EndsWith(s, c) == s # <<>> /\ s[Len(s)] = c

\* Number(string): blank is 0, a decimal integer with optional sign is its
\* value, anything else is NaN.
TrimmedToNumber(s) ==
    IF s = <<>> THEN [isNaN |-> FALSE, value |-> 0]
    ELSE IF AllDigits(s) THEN [isNaN |-> FALSE, value |-> DigitsValue(s)]
    ELSE IF s[1] = "-" /\ AllDigits(Tail(s))
         THEN [isNaN |-> FALSE, value |-> 0 - DigitsValue(Tail(s))]
    ELSE IF s[1] = "+" /\ AllDigits(Tail(s))
         THEN [isNaN |-> FALSE, value |-> DigitsValue(Tail(s))]
    ELSE [isNaN |-> TRUE, value |-> 0]

StringToNumber(str) == TrimmedToNumber(Trim(str))

\* ---------------------------------------------------------------- IntervalNumber
IntervalNumber(number, isClosed) == [number |-> number, isClosed |-> isClosed]

IntervalNumbers == {IntervalNumber(n, c) : n \in Values, c \in BOOLEAN}

\* ---------------------------------------------------------------- Interval
DefaultName == "Not Specified"

Undefined == "undefined"

Names == {DefaultName, "A"}

MkInterval(a, b, name) == [a |-> a, b |-> b, name |-> name]

\* get min / get max
min(i) == IF i.a.number < i.b.number THEN i.a ELSE i.b

max(i) == IF i.a.number > i.b.number THEN i.a ELSE i.b

\* setA with the assignment made before the check
setA_assignsFirst(i, value) ==
    IF i.b.number = value.number /\ ~i.b.isClosed /\ ~value.isClosed
    THEN [err |-> InvalidInterval, iv |-> [i EXCEPT !.a = value]]
    ELSE [err |-> NoError, iv |-> [i EXCEPT !.a = value]]

\* set a / set b: the check against the other endpoint, then the assignment
setA(i, value) ==
    IF i.b.number = value.number /\ ~i.b.isClosed /\ ~value.isClosed
    THEN [err |-> InvalidInterval, iv |-> i]
    ELSE [err |-> NoError, iv |-> [i EXCEPT !.a = value]]

setB(i, value) ==
    IF i.a.number = value.number /\ ~i.a.isClosed /\ ~value.isClosed
    THEN [err |-> InvalidInterval, iv |-> i]
    ELSE [err |-> NoError, iv |-> [i EXCEPT !.b = value]]

\* set min / set max: rewrite whichever of a, b holds that extreme value
setMin(i, value) ==
    IF i.a.number = min(i).number THEN setA(i, value) ELSE setB(i, value)

setMax(i, value) ==
    IF i.a.number = max(i).number THEN setA(i, value) ELSE setB(i, value)

\* contains with the closure of min and max ignored
contains_closureIgnored(i, x) ==
    min(i).number <= x.number /\ max(i).number >= x.number

\* contains(x: IntervalNumber)
contains(i, x) ==
    LET lowerBound == min(i).number < x.number
                      \/ (min(i).number = x.number /\ min(i).isClosed /\ x.isClosed)
        upperBound == max(i).number > x.number
                      \/ (max(i).number = x.number /\ max(i).isClosed /\ x.isClosed)
    IN  lowerBound /\ upperBound

\* contains(x: Interval)
containsInterval(i, x) == contains(i, x.a) /\ contains(i, x.b)

overlaps(i, interval) ==
    \/ contains(i, interval.a)
    \/ contains(i, interval.b)
    \/ contains(interval, i.a)
    \/ contains(interval, i.b)

toString(i) ==
    LET aIsClosedChar == IF i.a.isClosed THEN "[" ELSE "("
        bIsClosedChar == IF i.b.isClosed THEN "]" ELSE ")"
    IN  <<aIsClosedChar>> \o NumberToString(i.a.number) \o <<",", " ">>
        \o NumberToString(i.b.number) \o <<bIsClosedChar>>

\* parts = interval.split(',').map(part => part.trim())
TrimEach(pieces) == [k \in 1..Len(pieces) |-> Trim(pieces[k])]

Parts(s) == TrimEach(Split(s))

\* the return expression of validIntervalString, a and b being the numbers
\* read from the two parts
ValidEnds(parts, a, b) ==
    /\ ~a.isNaN
    /\ ~b.isNaN
    /\ (StartsWith(parts[1], "(") \/ StartsWith(parts[1], "["))
    /\ (EndsWith(parts[2], ")") \/ EndsWith(parts[2], "]"))
    /\ \/ a.value # b.value
       \/ (a.value = b.value /\ StartsWith(parts[1], "[") /\ EndsWith(parts[2], "]"))

\* validIntervalString from the split and trimmed parts on
ValidParts(parts) ==
    IF Len(parts) # 2 THEN FALSE
    ELSE ValidEnds(parts,
                   StringToNumber(Substring(parts[1], 1, Len(parts[1]))),
                   StringToNumber(Substring(parts[2], 0, Len(parts[2]) - 1)))

validIntervalString(s) == ValidParts(Parts(s))

\* A constructor argument: a string, or a structured {a, b, name?} value.
\* same says that a and b are one and the same IntervalNumber object (the
\* constructor compares them with ===); an Interval passed as the argument
\* is a structured value whose a and b getters return fresh copies.
StringArg(s) == [kind |-> "string", s |-> s]

StructArg(a, b, same, name) == [kind |-> "struct", a |-> a, b |-> b, same |-> same, name |-> name]

IntervalArg(i) == StructArg(i.a, i.b, FALSE, i.name)

\* constructor, for a structured argument
NewFromStruct(arg) ==
    IF arg.same /\ (~arg.a.isClosed \/ ~arg.b.isClosed)
    THEN [err |-> InvalidInterval, iv |-> MkInterval(arg.a, arg.b, DefaultName)]
    ELSE [err |-> NoError,
          iv |-> MkInterval(arg.a, arg.b, IF arg.name = Undefined THEN DefaultName ELSE arg.name)]

\* a parser that sorts the two numbers and leaves each bracket where it
\* was written
PartsToInterval_bracketsStay(parts) ==
    LET a == StringToNumber(Substring(parts[1], 1, Len(parts[1]))).value
        b == StringToNumber(Substring(parts[2], 0, Len(parts[2]) - 1)).value
    IN  NewFromStruct(StructArg(
            IntervalNumber(IF a < b THEN a ELSE b, StartsWith(parts[1], "[")),
            IntervalNumber(IF a < b THEN b ELSE a, EndsWith(parts[2], "]")),
            FALSE, Undefined))

\* static toInterval(string)
\* toInterval after the validity check: new Interval({ a, b }) from the parts
PartsToInterval(parts) ==
    NewFromStruct(StructArg(
        IntervalNumber(StringToNumber(Substring(parts[1], 1, Len(parts[1]))).value,
                       StartsWith(parts[1], "[")),
        IntervalNumber(StringToNumber(Substring(parts[2], 0, Len(parts[2]) - 1)).value,
                       EndsWith(parts[2], "]")),
        FALSE, Undefined))

toInterval(s) ==
    IF ~validIntervalString(s)
    THEN [err |-> InvalidIntervalString,
          iv |-> MkInterval(IntervalNumber(0, TRUE), IntervalNumber(0, TRUE), DefaultName)]
    ELSE PartsToInterval(Parts(s))

\* constructor, for a string argument: interval = Interval.toInterval(interval),
\* r its outcome, then the structured path on the Interval it returned
NewFromParsed(r) ==
    IF r.err # NoError THEN r ELSE NewFromStruct(IntervalArg(r.iv))

\* constructor(interval: IInterval | string)
NewInterval(arg) ==
    IF arg.kind = "string"
    THEN NewFromParsed(toInterval(arg.s))
    ELSE NewFromStruct(arg)

\* ---------------------------------------------------------------- inputs
StructArgs ==
    {StructArg(a, b, same, name) :
        a \in IntervalNumbers, b \in IntervalNumbers, same \in {FALSE}, name \in Names \cup {Undefined}}
    \cup {StructArg(a, a, TRUE, Undefined) : a \in IntervalNumbers}

\* every string toString can write, with the closing bracket next to either
\* number, and some strings the grammar does not allow
WellFormedStrings ==
    {toString(MkInterval(a, b, DefaultName)) : a \in IntervalNumbers, b \in IntervalNumbers}

MalformedStrings ==
    { <<"0", ",", " ", "1", "]">>,
      <<"[", "0", " ", "1", "]">>,
      <<"[", "x", ",", " ", "1", "]">>,
      <<"{", "0", ",", " ", "1", "}">>,
      <<"[", "0", ",", "1", ",", "2", "]">>,
      <<"[", "0", ",", " ", "1">> }

StringArgs == {StringArg(s) : s \in WellFormedStrings \cup MalformedStrings}

\* intervals a caller can hold: whatever the constructor accepts
Constructible == {NewInterval(arg).iv : arg \in {x \in StructArgs : NewInterval(x).err = NoError}}

\* the same, unnamed: arguments of contains and overlaps, which read no name
Others == {i \in Constructible : i.name = DefaultName}

\* ---------------------------------------------------------------- IntervalSet, static helpers
\* the comparator of IntervalSet.sort: a negative result, a before b
SortsBefore(a, b) ==
    \/ min(a).number < min(b).number
    \/ /\ min(a).number = min(b).number
       /\ min(a).isClosed
       /\ ~min(b).isClosed

\* Array.prototype.sort is stable: x, which came after every element of
\* sorted, goes in front of the first element it sorts before
RECURSIVE SortedInsert(_, _)
SortedInsert(sorted, x) ==
    IF sorted = <<>> THEN <<x>>
    ELSE IF SortsBefore(x, Head(sorted)) THEN <<x>> \o sorted
    ELSE <<Head(sorted)>> \o SortedInsert(Tail(sorted), x)

RECURSIVE sort(_)
sort(seq) ==
    IF seq = <<>> THEN <<>>
    ELSE SortedInsert(sort(SubSeq(seq, 1, Len(seq) - 1)), seq[Len(seq)])

\* intervals.splice(k, 1), k counted from 1
Splice(seq, k) == SubSeq(seq, 1, k - 1) \o SubSeq(seq, k + 1, Len(seq))

\* the condition under which the sweep folds next into current
MergeCondition(current, next) ==
    \/ overlaps(current, next)
    \/ /\ max(current).number = min(next).number
       /\ max(current).isClosed # min(next).isClosed

\* current.min = ... : the endpoint assigned
MergedMin(current, next) ==
    IF min(current).number < min(next).number \/ min(current).isClosed
    THEN min(current) ELSE min(next)

\* current.max = ... : the endpoint assigned
MergedMax(current, next) ==
    IF max(current).number > max(next).number \/ max(current).isClosed
    THEN max(current) ELSE max(next)

\* the loop of mergeIntervals from index i (counted from 1) on, n loop
\* bodies run so far; a throwing setter leaves the array as it is then
RECURSIVE MergeSweep(_, _, _)
\* a sweep that starts again from the first element after a removal
MergeSplice_restarts(seq, i, n, r2) ==
    IF r2.err # NoError
    THEN [err |-> r2.err, list |-> [seq EXCEPT ![i] = r2.iv], iterations |-> n + 1]
    ELSE MergeSweep(Splice([seq EXCEPT ![i] = r2.iv], i + 1), 1, n + 1)

\* after current.max = ..., r2 its outcome: splice and stay at i
MergeSplice(seq, i, n, r2) ==
    IF r2.err # NoError
    THEN [err |-> r2.err, list |-> [seq EXCEPT ![i] = r2.iv], iterations |-> n + 1]
    ELSE MergeSweep(Splice([seq EXCEPT ![i] = r2.iv], i + 1), i, n + 1)

\* after current.min = ..., r1 its outcome: current.max = ...
MergeMax(seq, i, n, r1) ==
    IF r1.err # NoError
    THEN [err |-> r1.err, list |-> seq, iterations |-> n + 1]
    ELSE MergeSplice(seq, i, n, setMax(r1.iv, MergedMax(r1.iv, seq[i + 1])))

MergeSweep(seq, i, n) ==
    IF i >= Len(seq) THEN [err |-> NoError, list |-> seq, iterations |-> n]
    ELSE IF MergeCondition(seq[i], seq[i + 1])
         THEN MergeMax(seq, i, n, setMin(seq[i], MergedMin(seq[i], seq[i + 1])))
         ELSE MergeSweep(seq, i + 1, n + 1)

\* static mergeIntervals(intervals), on the array in place
mergeIntervals(seq) == MergeSweep(sort(seq), 1, 0)

\* ---------------------------------------------------------------- IntervalSet, queries
\* getIntervalsContaining(x), x a bare number: a closed IntervalNumber
getIntervalsContaining(stored, x) ==
    LET xn == IntervalNumber(x, TRUE)
        Keep(r) == contains(r, xn)
    IN  SelectSeq(stored, Keep)

\* ---------------------------------------------------------------- IntervalSet, mutators
\* Each takes the stored array (this._intervals) and, where it reads it, the
\* flag this._mergeAddedInterval, and gives the array it leaves behind with
\* the error thrown, if any.  Stored Interval objects are mutated in place,
\* so an array element is addressed by its index.
Outcome(err, stored) == [err |-> err, intervals |-> stored]

\* set mergeAddedInterval(value)
\* the array a call of mergeIntervals leaves, with the error it threw
MergedOutcome(m) == Outcome(m.err, m.list)

\* set mergeAddedInterval(value)
SetMergeAddedInterval(stored, value) ==
    IF value
    THEN MergedOutcome(mergeIntervals(stored))
    ELSE Outcome(NoError, stored)

\* the loop of the constructor: new Interval(interval) pushed for each
RECURSIVE PushCopies(_, _)
\* one turn of that loop, r being the outcome of new Interval(Head(args))
PushCopy(stored, args, r) ==
    IF r.err # NoError THEN Outcome(r.err, stored)
    ELSE PushCopies(Append(stored, r.iv), Tail(args))

PushCopies(stored, args) ==
    IF args = <<>> THEN Outcome(NoError, stored)
    ELSE PushCopy(stored, args, NewInterval(Head(args)))

\* the constructor after its loop, pushed being the loop's outcome
AfterPush(pushed, value) ==
    IF pushed.err # NoError THEN pushed
    ELSE SetMergeAddedInterval(pushed.intervals, value)

\* new IntervalSet({ intervals: args, options: { mergeAddedInterval: value } })
NewIntervalSet(args, value) == AfterPush(PushCopies(<<>>, args), value)

\* addInterval that merges whatever the flag says
PushNew_alwaysMerges(stored, flag, r) ==
    IF r.err # NoError THEN Outcome(r.err, stored)
    ELSE MergedOutcome(mergeIntervals(Append(stored, r.iv)))

\* addInterval after new Interval(interval), r being its outcome
PushNew(stored, flag, r) ==
    IF r.err # NoError THEN Outcome(r.err, stored)
    ELSE IF flag
         THEN MergedOutcome(mergeIntervals(Append(stored, r.iv)))
         ELSE Outcome(NoError, Append(stored, r.iv))

addInterval(stored, flag, arg) == PushNew(stored, flag, NewInterval(arg))

\* removeInterval that takes out the first match only
FilterOut_firstOnly(stored, intervalString) ==
    LET NotFirst(k) ==
            \/ toString(stored[k]) # intervalString
            \/ \E j \in 1..(k - 1) : toString(stored[j]) = intervalString
        kept == SelectSeq([k \in 1..Len(stored) |-> k], NotFirst)
    IN  [n \in 1..Len(kept) |-> stored[kept[n]]]

\* the filter of removeInterval: r.toString() !== intervalString
FilterOut(stored, intervalString) ==
    LET Keep(x) == toString(x) # intervalString
    IN  SelectSeq(stored, Keep)

\* removeInterval after new Interval(interval), r being its outcome
RemoveNew(stored, r) ==
    IF r.err # NoError THEN Outcome(r.err, stored)
    ELSE Outcome(NoError, FilterOut(stored, toString(r.iv)))

removeInterval(stored, arg) == RemoveNew(stored, NewInterval(arg))

removeIntervalByName(stored, name) ==
    LET Keep(x) == x.name # name
    IN  Outcome(NoError, SelectSeq(stored, Keep))

clear(stored) == Outcome(NoError, <<>>)

\* the indices, ascending, of the elements of stored with an end inside q
\* and the other end outside it: inside and outside are max and min for
\* minIntervals, min and max for maxIntervals
minIntervals(stored, q) ==
    LET Keep(k) == contains(q, max(stored[k])) /\ ~contains(q, min(stored[k]))
    IN  SelectSeq([k \in 1..Len(stored) |-> k], Keep)

maxIntervals(stored, q) ==
    LET Keep(k) == contains(q, min(stored[k])) /\ ~contains(q, max(stored[k]))
    IN  SelectSeq([k \in 1..Len(stored) |-> k], Keep)

\* The state of createIntervalGap between its steps: the error thrown so
\* far, this._intervals and the intervals of overlappingIntervalSet
Gap(err, stored, others) == [err |-> err, intervals |-> stored, others |-> others]

\* for (const minInterval of minIntervals) { minInterval.max = ...;
\* overlappingIntervalSet.removeInterval(minInterval) }: stored is the live
\* array, idxs the places of the minIntervals still to do
RECURSIVE TruncateMaxLoop(_, _, _, _)
\* the rest of one turn, r being the outcome of the assignment to max
TruncatedMax(stored, others, idxs, q, r) ==
    IF r.err # NoError THEN Gap(r.err, stored, others)
    ELSE TruncateMaxLoop([stored EXCEPT ![Head(idxs)] = r.iv],
                         removeInterval(others, IntervalArg(r.iv)).intervals,
                         Tail(idxs), q)

TruncateMaxLoop(stored, others, idxs, q) ==
    IF idxs = <<>> THEN Gap(NoError, stored, others)
    ELSE TruncatedMax(stored, others, idxs, q,
                      setMax(stored[Head(idxs)], IntervalNumber(min(q).number, ~min(q).isClosed)))

\* for (const maxInterval of maxIntervals) { maxInterval.min = ...;
\* overlappingIntervalSet.removeInterval(maxInterval) }
RECURSIVE TruncateMinLoop(_, _, _, _)
\* the rest of one turn, r being the outcome of the assignment to min
TruncatedMin(stored, others, idxs, q, r) ==
    IF r.err # NoError THEN Gap(r.err, stored, others)
    ELSE TruncateMinLoop([stored EXCEPT ![Head(idxs)] = r.iv],
                         removeInterval(others, IntervalArg(r.iv)).intervals,
                         Tail(idxs), q)

TruncateMinLoop(stored, others, idxs, q) ==
    IF idxs = <<>> THEN Gap(NoError, stored, others)
    ELSE TruncatedMin(stored, others, idxs, q,
                      setMin(stored[Head(idxs)], IntervalNumber(max(q).number, ~max(q).isClosed)))

\* for (const overlappingInterval of overlappingIntervalSet.intervals)
\*     this.removeInterval(overlappingInterval)
RECURSIVE RemoveEach(_, _)
RemoveEach(stored, others) ==
    IF others = <<>> THEN Outcome(NoError, stored)
    ELSE RemoveEach(removeInterval(stored, IntervalArg(Head(others))).intervals, Tail(others))

\* this.addInterval(new Interval(piece)): built is the outcome of the inner
\* new Interval; when it throws, the array stays as it is
AddBuilt(stored, flag, built) ==
    IF built.err # NoError THEN Outcome(built.err, stored)
    ELSE addInterval(stored, flag, IntervalArg(built.iv))

\* the second this.addInterval(...), added being the outcome of the first
AddRight(flag, o, q, added) ==
    IF added.err # NoError THEN added
    ELSE AddBuilt(added.intervals, flag,
                  NewInterval(StructArg(IntervalNumber(max(q).number, ~max(q).isClosed), max(o),
                                        FALSE, Undefined)))

\* this.clear(); this.addInterval(left piece); this.addInterval(right piece)
SplitAround(flag, o, q) ==
    AddRight(flag, o, q,
             AddBuilt(clear(<<>>).intervals, flag,
                      NewInterval(StructArg(min(o), IntervalNumber(min(q).number, ~min(q).isClosed),
                                            FALSE, Undefined))))

\* createIntervalGap after both loops, t being the state they left
SplitOrRemove(flag, q, t) ==
    IF t.err # NoError THEN Outcome(t.err, t.intervals)
    ELSE IF Len(t.others) = 1 /\ containsInterval(t.others[1], q)
         THEN SplitAround(flag, t.others[1], q)
         ELSE RemoveEach(t.intervals, t.others)

\* createIntervalGap after the first loop, t being the state it left
TruncateMins(flag, q, t) ==
    IF t.err # NoError THEN Outcome(t.err, t.intervals)
    ELSE SplitOrRemove(flag, q,
                       TruncateMinLoop(t.intervals, t.others, maxIntervals(t.intervals, q), q))

\* createIntervalGap from new IntervalSet({ intervals: overlappingIntervals,
\* options: { mergeAddedInterval: false } }) on, set being its outcome
GapIn(stored, flag, q, set) ==
    IF set.err # NoError THEN Outcome(set.err, stored)
    ELSE TruncateMins(flag, q,
                      TruncateMaxLoop(stored, set.intervals, minIntervals(stored, q), q))

\* createIntervalGap from the filter on, overlappingIntervals being its result
GapAmong(stored, flag, q, overlappingIntervals) ==
    IF overlappingIntervals = <<>> THEN Outcome(NoError, stored)
    ELSE GapIn(stored, flag, q,
               NewIntervalSet([k \in 1..Len(overlappingIntervals) |->
                                   IntervalArg(overlappingIntervals[k])], FALSE))

\* this._intervals.filter((r) => r.overlaps(intervalObject))
Overlapping(stored, q) ==
    LET OverlapsQ(r) == overlaps(r, q)
    IN  SelectSeq(stored, OverlapsQ)

\* createIntervalGap after new Interval(interval), n being its outcome
GapFor(stored, flag, n) ==
    IF n.err # NoError THEN Outcome(n.err, stored)
    ELSE GapAmong(stored, flag, n.iv, Overlapping(stored, n.iv))

createIntervalGap(stored, flag, arg) == GapFor(stored, flag, NewInterval(arg))

\* ---------------------------------------------------------------- IntervalSet, gaps and chains
\* new IntervalNumber(n.number, !n.isClosed)
Inverted(n) == IntervalNumber(n.number, ~n.isClosed)

\* new Interval({ a, b }) of two fresh endpoints: it cannot throw
IntervalOf(a, b) == NewFromStruct(StructArg(a, b, FALSE, Undefined)).iv

\* this._intervals.map((r) => new Interval(r)): the getter intervals
Copies(stored) == [k \in 1..Len(stored) |-> NewFromStruct(IntervalArg(stored[k])).iv]

\* let intervalsCopy = this._intervals, the stored array under another name
intervalsCopy_aliased(stored) == [alias |-> TRUE, list |-> stored]

\* let intervalsCopy = this._intervals.map(...): alias says whether the
\* working array is the stored array itself
intervalsCopy(stored) == [alias |-> FALSE, list |-> Copies(stored)]

\* getIntervalGaps called without an argument
NoArg == [kind |-> "none"]

\* what getIntervalGaps leaves: the error thrown, the array returned and
\* this._intervals after the call
GapsResult(err, gaps, stored) == [err |-> err, gaps |-> gaps, intervals |-> stored]

\* one gaps.push(...) of the loops: from current's max to next's min, both inverted
GapAfter(current, next) == IntervalOf(Inverted(max(current)), Inverted(min(next)))

\* the loop over consecutive pairs
RECURSIVE GapsBetween(_)
GapsBetween(seq) ==
    IF Len(seq) < 2 THEN <<>>
    ELSE <<GapAfter(seq[1], seq[2])>> \o GapsBetween(Tail(seq))

\* if (!overlappingIntervals[0].contains(intervalObject.min)) gaps.push(...)
LeadingGap(q, first) ==
    IF ~contains(first, min(q))
    THEN <<IntervalOf(min(q), Inverted(min(first)))>>
    ELSE <<>>

\* if (!overlappingIntervals[length - 1].contains(intervalObject.max)) gaps.push(...)
TrailingGap(q, last) ==
    IF ~contains(last, max(q))
    THEN <<IntervalOf(Inverted(max(last)), max(q))>>
    ELSE <<>>

\* the branch if (intervalObject), o being the overlapping intervals
GapsWithin(q, o) ==
    IF o = <<>> THEN <<q>>
    ELSE LeadingGap(q, o[1]) \o GapsBetween(o) \o TrailingGap(q, o[Len(o)])

\* getIntervalGaps after IntervalSet.sort(intervalsCopy): live is the stored
\* array, sorted the working array
GapsSorted(live, hasArg, q, sorted) ==
    GapsResult(NoError,
               IF hasArg THEN GapsWithin(q, Overlapping(sorted, q)) ELSE GapsBetween(sorted),
               live)

\* getIntervalGaps after the merge of the working array, m being its outcome
GapsMerged(stored, hasArg, q, alias, m) ==
    IF m.err # NoError
    THEN GapsResult(m.err, <<>>, IF alias THEN m.list ELSE stored)
    ELSE GapsSorted(IF alias THEN sort(m.list) ELSE stored, hasArg, q, sort(m.list))

\* getIntervalGaps from the copy on
GapsOnCopy(stored, flag, hasArg, q, copy) ==
    GapsMerged(stored, hasArg, q, copy.alias,
               IF ~flag THEN mergeIntervals(copy.list)
               ELSE [err |-> NoError, list |-> copy.list, iterations |-> 0])

\* getIntervalGaps after interval ? new Interval(interval) : undefined
GapsFor(stored, flag, hasArg, n) ==
    IF hasArg /\ n.err # NoError THEN GapsResult(n.err, <<>>, stored)
    ELSE GapsOnCopy(stored, flag, hasArg, n.iv, intervalsCopy(stored))

getIntervalGaps(stored, flag, arg) ==
    GapsFor(stored, flag, arg.kind # "none",
            IF arg.kind = "none"
            THEN [err |-> NoError, iv |-> <<>>]
            ELSE NewInterval(arg))

\* what chainIntervals leaves: the error thrown, this._intervals and
\* this._mergeAddedInterval
Chained(err, stored, flag) == [err |-> err, intervals |-> stored, flag |-> flag]

\* this._intervals.find((r) => r.toString() === next.toString()): the index
\* of the first such element, 0 when there is none
FindByString(stored, intervalString) ==
    IF \E k \in 1..Len(stored) : toString(stored[k]) = intervalString
    THEN CHOOSE k \in 1..Len(stored) :
            /\ toString(stored[k]) = intervalString
            /\ \A j \in 1..(k - 1) : toString(stored[j]) # intervalString
    ELSE 0

\* if (localIntervalToUpdate) localIntervalToUpdate.min = new IntervalNumber(
\* current.max.number, !current.max.isClosed), k being the index found
UpdateLocal(stored, k, current) ==
    IF k = 0 THEN [err |-> NoError, list |-> stored]
    ELSE [err |-> setMin(stored[k], Inverted(max(current))).err,
          list |-> [stored EXCEPT ![k] = setMin(stored[k], Inverted(max(current))).iv]]

\* chainIntervals that leaves the flag as it found it
ChainMergedDone_flagKept(stored) == Chained(NoError, stored, TRUE)

\* this.mergeAddedInterval = false, after the loop
ChainMergedDone(stored) ==
    Chained(NoError, SetMergeAddedInterval(stored, FALSE).intervals, FALSE)

\* the loop of the branch if (this._mergeAddedInterval), copies being the
\* sorted copy, i counted from 1
RECURSIVE ChainMerged(_, _, _)
\* the rest of one turn, u being the outcome of the update
ChainMergedNext(copies, i, u) ==
    IF u.err # NoError THEN Chained(u.err, u.list, TRUE)
    ELSE ChainMerged(u.list, copies, i + 1)

ChainMerged(stored, copies, i) ==
    IF i >= Len(copies)
    THEN ChainMergedDone(stored)
    ELSE IF \/ max(copies[i]).number # min(copies[i + 1]).number
            \/ max(copies[i]).isClosed = min(copies[i + 1]).isClosed
         THEN ChainMergedNext(copies, i,
                  UpdateLocal(stored, FindByString(stored, toString(copies[i + 1])), copies[i]))
         ELSE ChainMerged(stored, copies, i + 1)

\* the loop of the else branch: the copy is spliced, the stored array updated
RECURSIVE ChainUnmerged(_, _, _)
\* the rest of one turn, u being the outcome of the update
ChainUnmergedNext(copies, i, u) ==
    IF u.err # NoError THEN Chained(u.err, u.list, FALSE)
    ELSE ChainUnmerged(u.list, copies, i + 1)

ChainUnmerged(stored, copies, i) ==
    IF i >= Len(copies) THEN Chained(NoError, stored, FALSE)
    ELSE IF \/ contains(copies[i], max(copies[i + 1]))
            \/ max(copies[i + 1]).number < max(copies[i]).number
         THEN ChainUnmerged(stored, Splice(copies, i + 1), i)
         ELSE IF /\ ~contains(copies[i], max(copies[i + 1]))
                 /\ max(copies[i]).number < max(copies[i + 1]).number
         THEN ChainUnmergedNext(copies, i,
                  UpdateLocal(stored, FindByString(stored, toString(copies[i + 1])), copies[i]))
         ELSE ChainUnmerged(stored, copies, i + 1)

chainIntervals(stored, flag) ==
    IF flag
    THEN ChainMerged(stored, sort(Copies(stored)), 1)
    ELSE ChainUnmerged(stored, sort(Copies(stored)), 1)

\* ---------------------------------------------------------------- Interval as a state machine
\* iv is one Interval object; out records the call just made on it: the
\* operation, its argument, the interval before the call, the error thrown
\* (NoError when it returned) and the value returned.  The caller makes one
\* call at a time (Ready) and drops the outcome (Forget) before the next.
Setters == {"a", "b", "min", "max"}

Called(op, arg, err, res) == [op |-> op, arg |-> arg, before |-> iv, err |-> err, res |-> res]

Ready == out.op = "none"

\* a call on the Interval touches nothing else
OnlyInterval == UNCHANGED <<list, merged, intervals, mergeAddedInterval, ret>>

IdleSet ==
    /\ list = <<>>
    /\ merged = <<>>
    /\ intervals = <<>>
    /\ mergeAddedInterval = TRUE
    /\ ret = <<>>

InitInterval ==
    /\ \E arg \in StructArgs \cup StringArgs :
          /\ NewInterval(arg).err = NoError
          /\ iv = NewInterval(arg).iv
          /\ out = [op |-> "new", arg |-> arg, before |-> NewInterval(arg).iv,
                    err |-> NoError, res |-> NewInterval(arg).iv]
    /\ IdleSet

\* new Interval(arg): the variable is rebound only when the constructor returns
New(arg) ==
    OnlyInterval /\ Ready /\
    LET r == NewInterval(arg)
    IN  /\ iv' = IF r.err = NoError THEN r.iv ELSE iv
        /\ out' = Called("new", arg, r.err, r.iv)

AssignA(value) ==
    OnlyInterval /\ Ready /\
    LET r == setA(iv, value)
    IN  iv' = r.iv /\ out' = Called("a", value, r.err, r.iv)

AssignB(value) ==
    OnlyInterval /\ Ready /\
    LET r == setB(iv, value)
    IN  iv' = r.iv /\ out' = Called("b", value, r.err, r.iv)

AssignMin(value) ==
    OnlyInterval /\ Ready /\
    LET r == setMin(iv, value)
    IN  iv' = r.iv /\ out' = Called("min", value, r.err, r.iv)

AssignMax(value) ==
    OnlyInterval /\ Ready /\
    LET r == setMax(iv, value)
    IN  iv' = r.iv /\ out' = Called("max", value, r.err, r.iv)

CallContains(x) ==
    OnlyInterval /\ Ready /\ iv' = iv /\ out' = Called("contains", x, NoError, contains(iv, x))

CallContainsInterval(other) ==
    OnlyInterval /\ Ready /\ iv' = iv /\ out' = Called("containsInterval", other, NoError, containsInterval(iv, other))

CallOverlaps(other) ==
    OnlyInterval /\ Ready /\ iv' = iv /\ out' = Called("overlaps", other, NoError, overlaps(iv, other))

\* a set holding just iv, asked for the intervals containing the number x
CallGetIntervalsContaining(x) ==
    OnlyInterval /\ Ready /\ iv' = iv /\ out' = Called("getIntervalsContaining", x, NoError, getIntervalsContaining(<<iv>>, x))

CallToString ==
    OnlyInterval /\ Ready /\ iv' = iv /\ out' = Called("toString", <<>>, NoError, toString(iv))

\* Interval.toInterval(iv.toString())
RoundTrip ==
    OnlyInterval /\ Ready /\
    LET r == toInterval(toString(iv))
    IN  iv' = iv /\ out' = Called("roundTrip", toString(iv), r.err, r.iv)

Forget == OnlyInterval /\ ~Ready /\ out' = NoCall /\ iv' = iv

NextInterval ==
    \/ Forget
    \/ \E arg \in StructArgs \cup StringArgs : New(arg)
    \/ \E value \in IntervalNumbers : AssignA(value)
    \/ \E value \in IntervalNumbers : AssignB(value)
    \/ \E value \in IntervalNumbers : AssignMin(value)
    \/ \E value \in IntervalNumbers : AssignMax(value)
    \/ \E x \in IntervalNumbers : CallContains(x)
    \/ \E other \in Others : CallContainsInterval(other)
    \/ \E other \in Others : CallOverlaps(other)
    \/ \E x \in Values : CallGetIntervalsContaining(x)
    \/ CallToString
    \/ RoundTrip

SpecInterval == InitInterval /\ [][NextInterval]_vars

\* ---------------------------------------------------------------- mergeIntervals on a list
\* list is an array of valid Interval objects handed to the static
\* mergeIntervals; merged is NotMerged until the call, then its outcome.
ValidIntervals == {i \in Others : i.a.number = i.b.number => (i.a.isClosed /\ i.b.isClosed)}

NotMerged == [calls |-> 0, err |-> NoError, list |-> <<>>, iterations |-> 0]

Merged(calls, r) == [calls |-> calls, err |-> r.err, list |-> r.list, iterations |-> r.iterations]

IdleInterval ==
    /\ iv = MkInterval(IntervalNumber(0, TRUE), IntervalNumber(0, TRUE), DefaultName)
    /\ out = NoCall

InitMerge ==
    /\ list = <<>>
    /\ merged = NotMerged
    /\ intervals = <<>>
    /\ mergeAddedInterval = TRUE
    /\ ret = <<>>
    /\ IdleInterval

\* a call on the array touches nothing else
OnlyMerge == UNCHANGED <<iv, out, intervals, mergeAddedInterval, ret>>

\* the caller builds the array
Push(i) ==
    /\ OnlyMerge
    /\ merged = NotMerged
    /\ Len(list) < MaxLen
    /\ list' = Append(list, i)
    /\ merged' = merged

\* IntervalSet.mergeIntervals(list)
CallMerge ==
    /\ OnlyMerge
    /\ merged = NotMerged
    /\ merged' = Merged(1, mergeIntervals(list))
    /\ list' = list

\* IntervalSet.mergeIntervals again, on the array the first call left
CallMergeAgain ==
    /\ OnlyMerge
    /\ merged.calls = 1
    /\ merged.err = NoError
    /\ list' = merged.list
    /\ merged' = Merged(2, mergeIntervals(merged.list))

NextMerge ==
    \/ \E i \in ValidIntervals : Push(i)
    \/ CallMerge
    \/ CallMergeAgain

SpecMerge == InitMerge /\ [][NextMerge]_vars

\* ---------------------------------------------------------------- IntervalSet as a state machine
\* intervals is this._intervals, mergeAddedInterval is this._mergeAddedInterval
\* and ret records the call just made: the method, its argument, the error
\* thrown (NoError when it returned), the value returned, and the stored
\* array (before) and the flag as they were when the call was made.  The
\* caller makes one call at a time and drops the outcome before the next.
\* Callers pass valid intervals, named or not.
SetInputs == {MkInterval(i.a, i.b, name) : i \in ValidIntervals, name \in Names}

Returned(op, arg, err, res) ==
    [op |-> op, arg |-> arg, err |-> err, res |-> res,
     before |-> intervals, flag |-> mergeAddedInterval]

SetReady == ret.op = "none"

\* a call on the set touches nothing else
OnlySet == UNCHANGED <<iv, out, list, merged>>

\* new IntervalSet() or new IntervalSet({ intervals: [i], options })
Init ==
    /\ \E args \in {<<>>} \cup {<<IntervalArg(i)>> : i \in SetInputs}, value \in BOOLEAN :
          /\ intervals = NewIntervalSet(args, value).intervals
          /\ mergeAddedInterval = value
    /\ ret = NothingReturned
    /\ list = <<>>
    /\ merged = NotMerged
    /\ IdleInterval

AddInterval(i) ==
    /\ OnlySet
    /\ SetReady
    /\ LET r == addInterval(intervals, mergeAddedInterval, IntervalArg(i))
       IN  /\ Len(r.intervals) <= MaxIntervals
           /\ intervals' = r.intervals
           /\ ret' = Returned("addInterval", i, r.err, <<>>)
    /\ UNCHANGED mergeAddedInterval

RemoveInterval(i) ==
    /\ OnlySet
    /\ SetReady
    /\ LET r == removeInterval(intervals, IntervalArg(i))
       IN  /\ intervals' = r.intervals
           /\ ret' = Returned("removeInterval", i, r.err, <<>>)
    /\ UNCHANGED mergeAddedInterval

RemoveIntervalByName(name) ==
    /\ OnlySet
    /\ SetReady
    /\ LET r == removeIntervalByName(intervals, name)
       IN  /\ intervals' = r.intervals
           /\ ret' = Returned("removeIntervalByName", name, r.err, <<>>)
    /\ UNCHANGED mergeAddedInterval

Clear ==
    /\ OnlySet
    /\ SetReady
    /\ intervals' = clear(intervals).intervals
    /\ ret' = Returned("clear", <<>>, NoError, <<>>)
    /\ UNCHANGED mergeAddedInterval

\* intervalSet.mergeAddedInterval = value
AssignMergeAddedInterval(value) ==
    /\ OnlySet
    /\ SetReady
    /\ mergeAddedInterval' = value
    /\ LET r == SetMergeAddedInterval(intervals, value)
       IN  /\ intervals' = r.intervals
           /\ ret' = Returned("mergeAddedInterval", value, r.err, <<>>)

CreateIntervalGap(q) ==
    /\ OnlySet
    /\ SetReady
    /\ LET r == createIntervalGap(intervals, mergeAddedInterval, IntervalArg(q))
       IN  /\ intervals' = r.intervals
           /\ ret' = Returned("createIntervalGap", q, r.err, <<>>)
    /\ UNCHANGED mergeAddedInterval

\* intervalSet.getIntervalGaps(q)
GetIntervalGaps(q) ==
    /\ OnlySet
    /\ SetReady
    /\ LET r == getIntervalGaps(intervals, mergeAddedInterval, IntervalArg(q))
       IN  /\ intervals' = r.intervals
           /\ ret' = Returned("getIntervalGaps", q, r.err, r.gaps)
    /\ UNCHANGED mergeAddedInterval

\* intervalSet.getIntervalGaps()
GetAllIntervalGaps ==
    /\ OnlySet
    /\ SetReady
    /\ LET r == getIntervalGaps(intervals, mergeAddedInterval, NoArg)
       IN  /\ intervals' = r.intervals
           /\ ret' = Returned("getIntervalGaps", NoArg, r.err, r.gaps)
    /\ UNCHANGED mergeAddedInterval

\* intervalSet.getIntervalsContaining(x), x a bare number
GetIntervalsContaining(x) ==
    /\ OnlySet
    /\ SetReady
    /\ ret' = Returned("getIntervalsContaining", x, NoError, getIntervalsContaining(intervals, x))
    /\ UNCHANGED <<intervals, mergeAddedInterval>>

\* intervalSet.chainIntervals()
ChainIntervals ==
    /\ OnlySet
    /\ SetReady
    /\ LET r == chainIntervals(intervals, mergeAddedInterval)
       IN  /\ intervals' = r.intervals
           /\ mergeAddedInterval' = r.flag
           /\ ret' = Returned("chainIntervals", <<>>, r.err, <<>>)

\* intervalSet.addInterval(i) as the call that follows a chainIntervals
\* that returned; flag keeps the value the flag had before chainIntervals
AddAfterChain(i) ==
    /\ OnlySet
    /\ ret.op = "chainIntervals"
    /\ ret.err = NoError
    /\ LET r == addInterval(intervals, mergeAddedInterval, IntervalArg(i))
       IN  /\ Len(r.intervals) <= MaxIntervals
           /\ intervals' = r.intervals
           /\ ret' = [op |-> "addAfterChain", arg |-> i, err |-> r.err, res |-> <<>>,
                      before |-> intervals, flag |-> ret.flag]
    /\ UNCHANGED mergeAddedInterval

SetForget ==
    /\ OnlySet
    /\ ~SetReady
    /\ ret' = NothingReturned
    /\ UNCHANGED <<intervals, mergeAddedInterval>>

Next ==
    \/ \E i \in SetInputs : AddInterval(i)
    \/ \E i \in ValidIntervals : RemoveInterval(i)
    \/ \E name \in Names : RemoveIntervalByName(name)
    \/ Clear
    \/ \E value \in BOOLEAN : AssignMergeAddedInterval(value)
    \/ \E q \in ValidIntervals : CreateIntervalGap(q)
    \/ \E q \in ValidIntervals : GetIntervalGaps(q)
    \/ GetAllIntervalGaps
    \/ \E x \in Values : GetIntervalsContaining(x)
    \/ ChainIntervals
    \/ \E i \in ValidIntervals : AddAfterChain(i)
    \/ SetForget

Spec == Init /\ [][Next]_vars

\* ---------------------------------------------------------------- claims about Interval
\* the data model's rule: equal endpoint values only with both ends closed
Valid(i) == i.a.number = i.b.number => (i.a.isClosed /\ i.b.isClosed)

\* The points of the line, doubled: 2v is the number v, 2v+1 stands for the
\* open stretch between v and v+1.
Points == 0..(2 * MaxValue)

\* whether the valid interval i, as a set of numbers, has the point p
Covers(i, p) ==
    LET lo == IF i.a.number < i.b.number THEN i.a.number ELSE i.b.number
        hi == IF i.a.number < i.b.number THEN i.b.number ELSE i.a.number
    IN  \/ 2 * lo < p /\ p < 2 * hi
        \/ p = 2 * i.a.number /\ i.a.isClosed
        \/ p = 2 * i.b.number /\ i.b.isClosed

\* C5: a constructor call whose two endpoints have one value returns iff
\* both are closed, for a structured argument with two separately created
\* endpoints and for a string.
C5_DegenerateConstruction ==
    out.op = "new" =>
        /\ (out.arg.kind = "struct" /\ ~out.arg.same /\ out.arg.a.number = out.arg.b.number)
              => (out.err = NoError <=> (out.arg.a.isClosed /\ out.arg.b.isClosed))
        /\ out.arg.kind = "string"
              => \A a, b \in IntervalNumbers :
                    (a.number = b.number /\ out.arg.s = toString(MkInterval(a, b, DefaultName)))
                        => (out.err = NoError <=> (a.isClosed /\ b.isClosed))

\* C6: an assignment to a, b, min or max of a valid interval that returns
\* leaves a valid interval (an assignment that would give equal endpoint
\* values with an open end is rejected).
C6_AssignmentKeepsValid ==
    (out.op \in Setters /\ Valid(out.before) /\ out.err = NoError) => Valid(iv)

\* C7: when an assignment to a, b, min or max throws, the interval is what
\* it was before the assignment (a, b with their closures, and name).
C7_FailedAssignmentUnchanged ==
    (out.op \in Setters /\ out.err # NoError) => iv = out.before

\* a rejected assignment whose value differs from the endpoint it would replace
C7_Witness ==
    /\ out.err = InvalidInterval
    /\ \/ out.op = "a" /\ out.arg # out.before.a
       \/ out.op = "b" /\ out.arg # out.before.b

\* C8: for a closed point x, contains(x) is true exactly when x lies strictly
\* between min and max or has the value of min or of max with that endpoint
\* closed; getIntervalsContaining(x) of a bare number x returns the interval
\* under exactly the same condition.
InsideClosed(i, x) ==
    \/ min(i).number < x /\ x < max(i).number
    \/ x = min(i).number /\ min(i).isClosed
    \/ x = max(i).number /\ max(i).isClosed

C8_ContainsClosedPoint ==
    /\ (out.op = "contains" /\ out.arg.isClosed)
          => (out.res <=> InsideClosed(iv, out.arg.number))
    /\ out.op = "getIntervalsContaining"
          => out.res = (IF InsideClosed(iv, out.arg) THEN <<iv>> ELSE <<>>)

\* [0, 2) asked for 0 and 2, and [1, 1] asked for 1
C8_Witness ==
    /\ out.op = "contains"
    /\ out.arg.isClosed
    /\ \/ /\ iv.a = IntervalNumber(0, TRUE)
          /\ iv.b = IntervalNumber(MaxValue, FALSE)
          /\ out.arg.number = MaxValue
          /\ ~out.res
       \/ /\ iv.a = iv.b
          /\ iv.a.isClosed
          /\ out.arg.number = iv.a.number
          /\ out.res

\* C9: for valid intervals A and B, A.overlaps(B) is true exactly when some
\* number belongs to both.
C9_OverlapsIffCommonPoint ==
    (out.op = "overlaps" /\ Valid(iv) /\ Valid(out.arg))
        => (out.res <=> \E p \in Points : Covers(iv, p) /\ Covers(out.arg, p))

\* C10: parsing the string form of an interval succeeds and gives the same
\* min value, max value and closures.
C10_RoundTrip ==
    out.op = "roundTrip" =>
        /\ out.err = NoError
        /\ min(out.res) = min(iv)
        /\ max(out.res) = max(iv)

\* ---------------------------------------------------------------- claims about mergeIntervals
CoveredBy(seq, p) == \E k \in 1..Len(seq) : Covers(seq[k], p)

NoTwoOverlap(seq) ==
    \A j, k \in 1..Len(seq) : j < k => ~overlaps(seq[j], seq[k])

InSortOrder(seq) ==
    \A k \in 1..(Len(seq) - 1) : ~SortsBefore(seq[k + 1], seq[k])

\* C2: the numbers covered by the result of mergeIntervals are exactly the
\* numbers covered by some interval of the input list.
C2_MergeKeepsCoverage ==
    merged.calls = 1 =>
        \A p \in Points : CoveredBy(merged.list, p) <=> CoveredBy(list, p)

\* C3: after mergeIntervals no two intervals of the list overlap (by
\* Interval.overlaps) and the list is in the sort order.
C3_MergedDisjointSorted ==
    merged.calls = 1 =>
        /\ NoTwoOverlap(merged.list)
        /\ InSortOrder(merged.list)

\* C4: mergeIntervals applied to the list a previous mergeIntervals call
\* produced leaves it as it is.
C4_MergeIdempotent ==
    merged.calls = 2 => (merged.err = NoError /\ merged.list = list)

\* ---------------------------------------------------------------- claims about IntervalSet
\* C1: while mergeAddedInterval is true, after construction and after every
\* addInterval, removeInterval, removeIntervalByName, clear, createIntervalGap
\* and assignment to mergeAddedInterval, no two stored intervals overlap and
\* the stored intervals are in the sort order.
C1_MergedInvariant ==
    mergeAddedInterval =>
        /\ NoTwoOverlap(intervals)
        /\ InSortOrder(intervals)

\* ---------------------------------------------------------------- claims about gaps
\* the numbers of an interval that may break the data model's rule: such an
\* interval, e.g. [1, 1), has none
HasPoint(i, p) == Valid(i) /\ Covers(i, p)

SomeHasPoint(seq, p) == \E k \in 1..Len(seq) : HasPoint(seq[k], p)

\* C11: the numbers covered by the list getIntervalGaps(Q) returns are
\* exactly the numbers of Q that no stored interval has.
C11_GapsAreUncoveredPartOfQ ==
    (ret.op = "getIntervalGaps" /\ ret.arg # NoArg /\ ret.err = NoError) =>
        (\A p \in Points :
            (SomeHasPoint(ret.res, p) <=> (HasPoint(ret.arg, p) /\ ~SomeHasPoint(ret.before, p))))

\* C12: getIntervalGaps, with or without an argument and for either value
\* of the flag, leaves the stored array and the flag as they were.
C12_GapsLeaveStoredUnchanged ==
    ret.op = "getIntervalGaps" => (intervals = ret.before /\ mergeAddedInterval = ret.flag)

\* the flag is false and the stored intervals are neither sorted nor merged,
\* and the copy that getIntervalGaps works on is changed by the merge
C12_Witness ==
    /\ ret.op = "getIntervalGaps"
    /\ ret.err = NoError
    /\ ~ret.flag
    /\ Len(ret.before) = 2
    /\ ~InSortOrder(ret.before)
    /\ mergeIntervals(ret.before).list # ret.before
    /\ sort(ret.before) # ret.before

\* ---------------------------------------------------------------- claims about the stored intervals
\* C13: while the flag is false, addInterval puts the new interval at the
\* end of the stored array and changes nothing else: the intervals stored
\* before keep their places and their values, and the flag stays false.
C13_AddOnlyAppends ==
    (ret.op = "addInterval" /\ ~ret.flag /\ ret.err = NoError) =>
        /\ intervals = Append(ret.before, ret.arg)
        /\ ~mergeAddedInterval

\* the flag is false and the interval added overlaps the one stored and
\* sorts before it, so that a merge or a sort would have shown
C13_Witness ==
    /\ ret.op = "addInterval"
    /\ ~ret.flag
    /\ ret.err = NoError
    /\ Len(ret.before) = 1
    /\ overlaps(ret.before[1], ret.arg)
    /\ sort(intervals) # intervals
    /\ mergeIntervals(intervals).list # intervals

\* x ends at the number where y starts, at least one of them closed there,
\* x starting before it and y ending after it
TouchAt(x, y, v) ==
    /\ max(x).number = v
    /\ min(y).number = v
    /\ max(x).isClosed \/ min(y).isClosed
    /\ min(x).number < v
    /\ v < max(y).number

\* C14: while the flag is true, adding an interval that touches the only
\* stored one at v, one of the two closed at v, leaves one stored interval
\* from the smaller min to the larger max, and getIntervalsContaining(v)
\* returns exactly that interval.
C14_TouchingIntervalsMergeToOne ==
    \A v \in Values :
        (/\ ret.op = "addInterval"
         /\ ret.flag
         /\ ret.err = NoError
         /\ Len(ret.before) = 1
         /\ TouchAt(ret.before[1], ret.arg, v) \/ TouchAt(ret.arg, ret.before[1], v)) =>
            /\ Len(intervals) = 1
            /\ min(intervals[1]) = (IF TouchAt(ret.before[1], ret.arg, v)
                                     THEN min(ret.before[1]) ELSE min(ret.arg))
            /\ max(intervals[1]) = (IF TouchAt(ret.before[1], ret.arg, v)
                                     THEN max(ret.arg) ELSE max(ret.before[1]))
            /\ getIntervalsContaining(intervals, v) = intervals

\* C15: while the flag is true, after createIntervalGap(Q) has returned no
\* stored interval has a number in common with Q.
C15_GapLeavesNothingInQ ==
    (ret.op = "createIntervalGap" /\ ret.flag /\ ret.err = NoError) =>
        (\A p \in Points : ~(HasPoint(ret.arg, p) /\ SomeHasPoint(intervals, p)))

\* x runs between the endpoints lo and hi
RunsBetween(x, lo, hi) ==
    \/ x.a = lo /\ x.b = hi
    \/ x.a = hi /\ x.b = lo

\* seq is rest with the two pieces of old around q put in somewhere
SplitInto(seq, rest, old, q) ==
    /\ Len(seq) = Len(rest) + 2
    /\ \E l \in 1..Len(seq) : \E r \in (l + 1)..Len(seq) :
          /\ Splice(Splice(seq, r), l) = rest
          /\ \/ /\ RunsBetween(seq[l], min(old), Inverted(min(q)))
                /\ RunsBetween(seq[r], Inverted(max(q)), max(old))
             \/ /\ RunsBetween(seq[r], min(old), Inverted(min(q)))
                /\ RunsBetween(seq[l], Inverted(max(q)), max(old))

\* C16: when exactly one stored interval overlaps Q and it contains both
\* endpoints of Q, createIntervalGap(Q) puts two intervals in its place,
\* one from its old min to Q's min inverted and one from Q's max inverted
\* to its old max, and keeps the other stored intervals.
C16_ContainingIntervalIsSplit ==
    \A k \in 1..Len(ret.before) :
        (/\ ret.op = "createIntervalGap"
         /\ ret.err = NoError
         /\ \A j \in 1..Len(ret.before) : overlaps(ret.before[j], ret.arg) <=> j = k
         /\ contains(ret.before[k], min(ret.arg))
         /\ contains(ret.before[k], max(ret.arg))) =>
            SplitInto(intervals, Splice(ret.before, k), ret.before[k], ret.arg)

\* x ends where y starts: the same number, closed on one side and open on
\* the other
Abuts(x, y) ==
    /\ max(x).number = min(y).number
    /\ max(x).isClosed # min(y).isClosed

Chain(seq) == \A k \in 1..(Len(seq) - 1) : Abuts(seq[k], seq[k + 1])

\* C17: while the flag is true, after chainIntervals has returned every two
\* stored intervals that follow each other in sort order abut: the max of
\* the first and the min of the second are the same number with opposite
\* closures.
C17_ChainLeavesNoGaps ==
    (ret.op = "chainIntervals" /\ ret.flag /\ ret.err = NoError) => Chain(sort(intervals))

\* C18: when chainIntervals has returned the flag is false, whatever it was
\* before the call, and the addInterval that follows only appends: the
\* stored array is the one before it with the new interval at the end, one
\* interval longer, and the flag is still false.
C18_ChainTurnsMergingOff ==
    /\ (ret.op = "chainIntervals" /\ ret.err = NoError) => ~mergeAddedInterval
    /\ (ret.op = "addAfterChain" /\ ret.err = NoError) =>
            /\ ~mergeAddedInterval
            /\ Len(intervals) = Len(ret.before) + 1
            /\ intervals = Append(ret.before, ret.arg)

\* the flag was true before chainIntervals, and the interval added after it
\* overlaps the one stored, so that a merge would have joined them
C18_Witness ==
    /\ ret.op = "addAfterChain"
    /\ ret.err = NoError
    /\ ret.flag
    /\ Len(ret.before) = 1
    /\ overlaps(ret.before[1], ret.arg)
    /\ Len(mergeIntervals(Append(ret.before, ret.arg)).list) = 1

\* the stored intervals whose string form is not that of i, in their order
WithoutString(seq, i) ==
    LET Differs(x) == toString(x) # toString(i)
    IN  SelectSeq(seq, Differs)

\* C19: removeInterval(I) takes out every stored interval whose string form
\* is that of I and nothing else: the others stay as they were and in the
\* same order, and the flag is unchanged.
C19_RemoveTakesOutEqualStrings ==
    (ret.op = "removeInterval" /\ ret.err = NoError) =>
        /\ intervals = WithoutString(ret.before, ret.arg)
        /\ mergeAddedInterval = ret.flag

\* of two stored intervals one is removed and the other, which has the same
\* numbers and another closure, is kept
C19_Witness ==
    /\ ret.op = "removeInterval"
    /\ ret.err = NoError
    /\ Len(ret.before) = 2
    /\ Len(intervals) = 1
    /\ min(intervals[1]).number = min(ret.arg).number
    /\ max(intervals[1]).number = max(ret.arg).number

\* ---------------------------------------------------------------- claims about the string form
\* the string that has lo first and hi second, each with its closure
Written(lo, hi) ==
    <<IF lo.isClosed THEN "[" ELSE "(">> \o NumberToString(lo.number) \o <<",", " ">>
        \o NumberToString(hi.number) \o <<IF hi.isClosed THEN "]" ELSE ")">>

\* C20: toString writes the smaller endpoint first and the larger second,
\* the opening bracket showing the closure of min and the closing bracket
\* that of max, whichever of a and b holds the smaller number.
C20_ToStringWritesMinFirst ==
    (out.op = "toString" /\ iv.a.number # iv.b.number) => out.res = Written(min(iv), max(iv))

\* C21: a string with the two numbers in either order parses, each closure
\* staying with the number it is written next to, and min and max are the
\* smaller and the larger number with their closures: '(2, 0]' has min 0
\* closed and max 2 open.
C21_ParseEitherOrder ==
    \A a \in IntervalNumbers : \A b \in IntervalNumbers :
        (/\ out.op = "new"
         /\ out.arg.kind = "string"
         /\ out.arg.s = Written(a, b)
         /\ a.number # b.number) =>
            /\ out.err = NoError
            /\ iv = out.res
            /\ min(iv) = (IF a.number < b.number THEN a ELSE b)
            /\ max(iv) = (IF a.number < b.number THEN b ELSE a)

\* the string parsed has the larger number first and the two closures differ
C21_Witness ==
    /\ out.op = "new"
    /\ out.arg.kind = "string"
    /\ out.err = NoError
    /\ \E a \in IntervalNumbers : \E b \in IntervalNumbers :
          /\ out.arg.s = Written(a, b)
          /\ a.number > b.number
          /\ a.isClosed # b.isClosed

\* ---------------------------------------------------------------- claims about the merge sweep
\* of two endpoints, the one with the smaller number, or with the larger
\* one; when the numbers are equal, the closed one
Smaller(x, y) ==
    IF x.number < y.number THEN x
    ELSE IF y.number < x.number THEN y
    ELSE IF x.isClosed THEN x ELSE y

Larger(x, y) ==
    IF x.number > y.number THEN x
    ELSE IF y.number > x.number THEN y
    ELSE IF x.isClosed THEN x ELSE y

\* C22: when mergeIntervals folds a pair, the interval it leaves has the
\* smaller of the two mins and the larger of the two maxes, the closed one
\* of two endpoints with the same number; a closed max of current that is
\* smaller than the max of next gives way to it.
C22_FoldTakesOuterEndpoints ==
    (/\ merged.calls = 1
     /\ Len(list) = 2
     /\ MergeCondition(sort(list)[1], sort(list)[2])) =>
        /\ merged.err = NoError
        /\ Len(merged.list) = 1
        /\ min(merged.list[1]) = Smaller(min(list[1]), min(list[2]))
        /\ max(merged.list[1]) = Larger(max(list[1]), max(list[2]))

\* ---------------------------------------------------------------- claims about createIntervalGap
\* C23: createIntervalGap(Q) takes numbers away only inside Q: a number
\* outside Q that some stored interval had before the call is in a stored
\* interval after it.
C23_GapKeepsCoverageOutsideQ ==
    (ret.op = "createIntervalGap" /\ ret.err = NoError) =>
        (\A p \in Points :
            (SomeHasPoint(ret.before, p) /\ ~HasPoint(ret.arg, p)) => SomeHasPoint(intervals, p))

\* ---------------------------------------------------------------- claims about the gaps reported
\* C24: every gap getIntervalGaps() reports, called without an argument,
\* has a first endpoint that is not greater than its second.
C24_GapsRunForward ==
    (ret.op = "getIntervalGaps" /\ ret.arg = NoArg /\ ret.err = NoError) =>
        (\A k \in 1..Len(ret.res) : ret.res[k].a.number <= ret.res[k].b.number)

\* ---------------------------------------------------------------- claims about chains
\* no interval of seq lies inside another one
NoneInsideAnother(seq) ==
    \A j \in 1..Len(seq) : \A k \in 1..Len(seq) :
        j # k => ~(\A p \in Points : HasPoint(seq[k], p) => HasPoint(seq[j], p))

\* C25: after chainIntervals on a set whose flag is false, no stored
\* interval lies inside another and the stored intervals that follow each
\* other in sort order abut.
C25_UnmergedChainLinksAll ==
    (ret.op = "chainIntervals" /\ ~ret.flag /\ ret.err = NoError) =>
        /\ NoneInsideAnother(intervals)
        /\ Chain(sort(intervals))

\* ---------------------------------------------------------------- claims about validity
\* C26: every stored interval is valid, whatever calls were made on the
\* set: none has two endpoints with the same number and an open end.
C26_StoredIntervalsValid ==
    \A k \in 1..Len(intervals) : Valid(intervals[k])

\* C27: every interval getIntervalGaps(Q) returns is valid and lies inside
\* Q: no [1, 1) or (1, 1] is reported, and each of its numbers is a number
\* of Q.
C27_GapsValidInsideQ ==
    (ret.op = "getIntervalGaps" /\ ret.arg # NoArg /\ ret.err = NoError) =>
        (\A k \in 1..Len(ret.res) :
            /\ Valid(ret.res[k])
            /\ \A p \in Points : Covers(ret.res[k], p) => HasPoint(ret.arg, p))

\* ---------------------------------------------------------------- claims about contains
\* C28: for valid intervals A and B, A.contains(B) is true exactly when
\* every number of B is a number of A.
C28_ContainsIffSubset ==
    (out.op = "containsInterval" /\ Valid(iv) /\ Valid(out.arg)) =>
        (out.res <=> (\A p \in Points : Covers(out.arg, p) => Covers(iv, p)))

\* ---------------------------------------------------------------- claims about what createIntervalGap leaves alone
\* the intervals of seq that do not overlap q, in their order
NotOverlapping(seq, q) ==
    LET Apart(r) == ~overlaps(r, q)
    IN  SelectSeq(seq, Apart)

\* C29: createIntervalGap(Q) leaves every stored interval that does not
\* overlap Q in the set, with its endpoints and its name, also when another
\* one is split; when no stored interval overlaps Q the set is unchanged.
C29_GapLeavesOthersAlone ==
    (ret.op = "createIntervalGap" /\ ret.err = NoError) =>
        /\ NotOverlapping(ret.before, ret.arg) = ret.before => intervals = ret.before
        /\ \A k \in 1..Len(ret.before) :
              ~overlaps(ret.before[k], ret.arg) =>
                  \E j \in 1..Len(intervals) : intervals[j] = ret.before[k]

\* ---------------------------------------------------------------- claims about the length of the sweep
\* C30: mergeIntervals ends on every list: each turn of its loop either
\* moves on to the next element or removes one, so a list of n intervals
\* takes at most 2n turns; the turns are the elements removed and the steps
\* forward, n - 1 in all.
C30_MergeSweepBounded ==
    merged.calls >= 1 =>
        /\ merged.iterations <= 2 * Len(list)
        /\ (merged.err = NoError /\ Len(list) >= 1) =>
               merged.iterations = (Len(list) - Len(merged.list)) + (Len(merged.list) - 1)

\* a list of MaxLen intervals of which the sweep removed one and stepped
\* over another
C30_Witness ==
    /\ merged.calls = 1
    /\ merged.err = NoError
    /\ Len(list) = MaxLen
    /\ Len(merged.list) = MaxLen - 1
    /\ merged.iterations = MaxLen - 1
====
